---- MODULE Spec2Model ----
(***************************************************************************)
(* State-machine model of modules/imap_client.py (class IMAPClient):       *)
(* host-candidate fallback in connect(), teardown in disconnect(), and the *)
(* select / search / fetch pipeline of get_messages() with the message     *)
(* decoding helpers.  Every awaited imaplib call is one step; its outcome  *)
(* is chosen by the environment (the remote server and the network).       *)
(*                                                                         *)
(* Text values (addresses, message bodies) are sequences of one-character  *)
(* strings so that split / strip / lower / escape are computed, not        *)
(* assumed.                                                                *)
(***************************************************************************)
EXTENDS Integers, Sequences, FiniteSets, TLC

\* ------------------------------------------------------------------ bounds

\* Most transport handles the environment lets one run open.
MaxHandles == 2
\* Most identifiers a search result carries.
MaxIds == 2
\* The limits a caller passes run from MinLimit (negative) to one more than
\* the longest search result.
MinLimit == 0 - 1
MaxLimit == MaxIds + 1

\* ------------------------------------------------------------- text helpers

None == "None"
NoHandle == 0

Max(S) == CHOOSE x \in S : \A y \in S : y <= x
Min(S) == CHOOSE x \in S : \A y \in S : x <= y

IsSpace(c) == c \in {" ", "\n"}

\* str.lower() on the characters the model uses.
LowerChar(c) ==
    CASE c = "A" -> "a"
      [] c = "B" -> "b"
      [] c = "X" -> "x"
      [] c = "U" -> "u"
      [] OTHER -> c

Lower(s) == [j \in 1..Len(s) |-> LowerChar(s[j])]

\* str.strip(): drop leading and trailing whitespace.
Strip(s) ==
    LET keep == {j \in 1..Len(s) : ~IsSpace(s[j])}
    IN  IF keep = {} THEN <<>> ELSE SubSeq(s, Min(keep), Max(keep))

\* s.split("@")[-1]: the text after the last "@" (all of s when there is none).
AfterLastAt(s) ==
    LET ats == {j \in 1..Len(s) : s[j] = "@"}
    IN  IF ats = {} THEN s ELSE SubSeq(s, Max(ats) + 1, Len(s))

Reverse(s) == [j \in 1..Len(s) |-> s[Len(s) + 1 - j]]

\* ---------------------------------------------------- configuration tables

\* modules/imap_config.py: domain -> host.
IMAP_SERVERS ==
    (<<"a", ".", "b">> :> "imap.a.b") @@ (<<"b", ".", "a">> :> "imap.b.a")

FallbackHosts == <<"imap.firstmail.ltd", "imap.notletters.com">>

\* dict.get(domain): the host, or None.
ServersGet(domain) ==
    IF domain \in DOMAIN IMAP_SERVERS THEN IMAP_SERVERS[domain] ELSE None

\* Addresses a caller constructs a client with: one "@" each.
Addresses ==
    { <<"u", "@", "a", ".", "b">>,
      <<"U", "@", "B", ".", "A", " ">>,
      <<"u", "@", "x", ".", "a">>,
      <<"u", "@", "a", ".", "b", ".", "X">> }

\* A bug the lookup could have: the domain is looked up as typed.
CandidateHosts_NoLower(e) ==
    LET domain == Strip(AfterLastAt(e))
        host == ServersGet(domain)
    IN  IF host # None /\ host # "" THEN <<host>> ELSE FallbackHosts

\* IMAPClient._candidate_hosts
CandidateHosts(e) ==
    LET domain == Lower(Strip(AfterLastAt(e)))
        host == ServersGet(domain)
    IN  IF host # None /\ host # "" THEN <<host>> ELSE FallbackHosts

\* ------------------------------------------------------- message decoding

\* Character sets Python's codec registry knows (of those the model uses).
KnownCharsets == {"utf-8"}

\* A byte that is not valid UTF-8, and what errors="replace" puts for it.
BadByte == "xFF"
ReplacementChar == "U+FFFD"

\* bytes.decode(charset, errors="replace"): LookupError on an unknown
\* charset, otherwise the text with undecodable bytes replaced.
BytesDecode(payload, charset) ==
    IF charset \in KnownCharsets
    THEN [exc |-> None,
          text |-> [j \in 1..Len(payload) |->
                      IF payload[j] = BadByte THEN ReplacementChar ELSE payload[j]]]
    ELSE [exc |-> "LookupError", text |-> <<>>]

\* part.get_content_charset() or "utf-8"
CharsetOrDefault(charset) == IF charset = None THEN "utf-8" ELSE charset

\* _extract_bodies, multipart branch: decode with the declared charset and
\* fall back to UTF-8 when that raises.
DecodePart(payload, charset) ==
    LET first == BytesDecode(payload, CharsetOrDefault(charset))
    IN  IF first.exc = None THEN first ELSE BytesDecode(payload, "utf-8")

\* _extract_bodies, single-part branch: no fallback, the error propagates.
DecodeSingle(payload, charset) == BytesDecode(payload, CharsetOrDefault(charset))

Maintype(ctype) ==
    IF ctype \in {"multipart/mixed", "multipart/alternative"} THEN "multipart"
    ELSE IF ctype \in {"text/plain", "text/html"} THEN "text"
    ELSE "application"

\* "attachment" in disp.lower()
IsAttachment(disp) == disp \in {"attachment; filename=f", "ATTACHMENT"}

RECURSIVE JoinNL(_)
\* "\n".join(parts)
JoinNL(parts) ==
    IF parts = <<>> THEN <<>>
    ELSE IF Len(parts) = 1 THEN parts[1]
    ELSE parts[1] \o <<"\n">> \o JoinNL(Tail(parts))

RECURSIVE WalkParts(_, _, _)
\* _extract_bodies: the loop over msg.walk(); the result is
\* <<plain_parts, html_parts>>.
WalkParts(parts, plain, htmlp) ==
    IF parts = <<>> THEN <<plain, htmlp>>
    ELSE LET part == Head(parts)
             text == DecodePart(part.payload, part.charset).text
         IN  IF Maintype(part.ctype) = "multipart" THEN WalkParts(Tail(parts), plain, htmlp)
             ELSE IF part.disp # "" /\ IsAttachment(part.disp)
                  THEN WalkParts(Tail(parts), plain, htmlp)
             ELSE IF part.ctype = "text/plain"
                  THEN WalkParts(Tail(parts), Append(plain, text), htmlp)
             ELSE IF part.ctype = "text/html"
                  THEN WalkParts(Tail(parts), plain, Append(htmlp, text))
             ELSE WalkParts(Tail(parts), plain, htmlp)

\* IMAPClient._extract_bodies: [exc, text, html].
ExtractBodies(msg) ==
    IF msg.multipart
    THEN LET w == WalkParts(msg.parts, <<>>, <<>>)
         IN  [exc |-> None, text |-> Strip(JoinNL(w[1])), html |-> Strip(JoinNL(w[2]))]
    ELSE LET d == DecodeSingle(msg.payload, msg.charset)
         IN  IF d.exc # None THEN [exc |-> d.exc, text |-> <<>>, html |-> <<>>]
             ELSE IF msg.ctype = "text/html"
                  THEN [exc |-> None, text |-> <<>>, html |-> Strip(d.text)]
                  ELSE [exc |-> None, text |-> Strip(d.text), html |-> <<>>]

\* html.escape(c) for one character (quote=True).
EscapeChar(c) ==
    CASE c = "&" -> "&amp;"
      [] c = "<" -> "&lt;"
      [] c = ">" -> "&gt;"
      [] c = "\"" -> "&quot;"
      [] c = "'" -> "&#x27;"
      [] OTHER -> c

HtmlEscape(text) == [j \in 1..Len(text) |-> EscapeChar(text[j])]

PreOpen == "<pre style='white-space:pre-wrap;margin:0'>"
PreClose == "</pre>"

\* A bug the fallback could have: the text is wrapped as it is.
PlaintextToMinimalHtml_NoEscape(text) == <<PreOpen>> \o text \o <<PreClose>>

\* IMAPClient._plaintext_to_minimal_html
PlaintextToMinimalHtml(text) == <<PreOpen>> \o HtmlEscape(text) \o <<PreClose>>

\* RFC 2047 values the model's headers use: the encoded word and what
\* make_header(decode_header(v)) gives for it; the second one names a
\* charset no codec knows, so make_header raises.
EncodedGood == "=?utf-8?B?SGk=?="
EncodedBad == "=?x-unknown?B?SGk=?="

\* IMAPClient._decode_maybe_encoded
DecodeMaybeEncoded(value) ==
    IF value = None THEN ""
    ELSE IF value = EncodedGood THEN "Hi"
    ELSE IF value = EncodedBad THEN value
    ELSE value

\* ------------------------------------------------- messages on the server

Leaf(ctype, disp, charset, payload) ==
    [ctype |-> ctype, disp |-> disp, charset |-> charset, payload |-> payload]

Single(ctype, charset, payload, subject) ==
    [multipart |-> FALSE, ctype |-> ctype, charset |-> charset, payload |-> payload,
     parts |-> <<>>, subject |-> subject]

Multi(parts, subject) ==
    [multipart |-> TRUE, ctype |-> "multipart/alternative", charset |-> None,
     payload |-> <<>>, parts |-> parts, subject |-> subject]

\* The message shapes a fetch can deliver (email.message_from_bytes of the
\* raw bytes).
Bodies ==
    << Single("text/plain", "utf-8", <<" ", "a", "<", BadByte>>, None),
       Single("text/html", None, <<"<", "b", ">", "\n">>, "Hello"),
       Single("text/plain", "x-unknown", <<"a">>, "Hello"),
       Multi(<< Leaf("multipart/alternative", "", None, <<>>),
                Leaf("text/plain", "", "utf-8", <<"a", "&">>),
                Leaf("text/html", "inline", "utf-8", <<"<", "a", ">">>) >>, EncodedGood),
       Multi(<< Leaf("text/plain", "", "x-unknown", <<"a", BadByte>>),
                Leaf("text/plain", "", None, <<"b">>),
                Leaf("text/html", "", "utf-8", <<" ">>),
                Leaf("text/plain", "ATTACHMENT", "utf-8", <<"x">>) >>, EncodedBad) >>

NoBody == 0

\* What server.fetch returns: typ and data.  shape is the form of data:
\* "empty" is [], "none" is [None], "bytes" is [b"..."] (no literal, e.g.
\* a bare flags line), "tuple" is [(envelope, raw), b")"].
FetchResponses ==
    [typ : {"NO"}, shape : {"none"}, body : {NoBody}]
    \cup [typ : {"OK"}, shape : {"empty", "none", "bytes"}, body : {NoBody}]
    \cup [typ : {"OK"}, shape : {"tuple"}, body : 1..Len(Bodies)]

\* get_messages, lines 129-130: the responses the loop skips.
Skipped(r) == r.typ # "OK" \/ r.shape = "empty" \/ r.shape = "none"

\* get_messages, lines 132-155: the record of one fetched message, or the
\* exception that parsing it raises.  data[0][1] of a bytes item is an int,
\* which email.message_from_bytes cannot parse.  The message with identifier
\* id carries Message-ID id; from, to and date are decoded as subject is.
BuildRecord(id, r) ==
    IF r.shape = "bytes" THEN [exc |-> "AttributeError", rec |-> <<>>]
    ELSE LET msg == Bodies[r.body]
             b == ExtractBodies(msg)
             body_html == IF b.html = <<>> /\ b.text # <<>>
                          THEN PlaintextToMinimalHtml(b.text) ELSE b.html
         IN  IF b.exc # None THEN [exc |-> b.exc, rec |-> <<>>]
             ELSE [exc |-> None,
                   rec |-> << [subject |-> DecodeMaybeEncoded(msg.subject),
                               message_id |-> id,
                               body_text |-> b.text,
                               body_html |-> body_html] >>]

\* --------------------------------------------------- get_messages helpers

\* The byte that separates identifiers in a search response (a space).
SpaceByte == 0

RECURSIVE SearchJoin(_)
\* The data[0] the server sends for the ascending identifiers 1..n.
SearchJoin(n) ==
    IF n = 0 THEN <<>>
    ELSE IF n = 1 THEN <<1>>
    ELSE SearchJoin(n - 1) \o <<SpaceByte, n>>

\* What server.search returns as data[0]: None, or the identifiers joined
\* by spaces (b"" when there are none).
SearchData ==
    {[none |-> TRUE, bytes |-> <<>>, n |-> 0]}
    \cup {[none |-> FALSE, bytes |-> SearchJoin(n), n |-> n] : n \in 0..MaxIds}

\* A bug the parsing could have: split(b" "), which yields one empty token
\* for empty input.
ParseIds_ExplicitSeparator(d) ==
    LET bytes == IF d.none THEN <<>> ELSE d.bytes
    IN  IF bytes = <<>> THEN <<SpaceByte>>
        ELSE SelectSeq(bytes, LAMBDA b : b # SpaceByte)

\* get_messages, line 118: (data[0] or b"").split()
ParseIds(d) ==
    LET bytes == IF d.none THEN <<>> ELSE d.bytes
    IN  SelectSeq(bytes, LAMBDA b : b # SpaceByte)

\* Python's s[start:] for any integer start.
PySliceFrom(s, start) ==
    LET n == Len(s)
        lo == IF start < 0 THEN Max({start + n, 0}) ELSE Min({start, n})
    IN  SubSeq(s, lo + 1, n)

\* A bug line 122 could have: the slice taken newest first.
LastN_Reversed(ids, lim) == Reverse(PySliceFrom(ids, 0 - lim))

\* get_messages, line 122: msg_ids[-limit:]
LastN(ids, lim) == PySliceFrom(ids, 0 - lim)

\* A bug line 123 could have: the two fetch modes swapped.
FetchItems_Swapped(ms) == IF ms THEN "(BODY.PEEK[])" ELSE "(RFC822)"

\* get_messages, line 123
FetchItems(ms) == IF ms THEN "(RFC822)" ELSE "(BODY.PEEK[])"

\* get_messages, line 110: select is always called with readonly=True.
SelectReadonly(ms) == TRUE

\* ------------------------------------------------------- results and log

NoCause == [kind |-> "none", host |-> None]

Result(op, kind, exc, msg, tried, cause, value) ==
    [op |-> op, kind |-> kind, exc |-> exc, msg |-> msg, tried |-> tried,
     cause |-> cause, value |-> value]

NoResult == Result("none", "none", None, None, <<>>, NoCause, <<>>)
Running(op) == Result(op, "running", None, None, <<>>, NoCause, <<>>)
Return(op, value) == Result(op, "return", None, None, <<>>, NoCause, value)
Raise(op, exc, msg) == Result(op, "raise", exc, msg, <<>>, NoCause, <<>>)

\* A bug the final raise could have: only the host tried last is named.
ConnectFailure_LastHostOnly(e, cause) ==
    Result("connect", "raise", "MailAuthError", "no_host_accepted",
           <<CandidateHosts(e)[Len(CandidateHosts(e))]>>, cause, <<>>)

\* connect, lines 78-82: the error raised when no candidate was accepted.
ConnectFailure(e, cause) ==
    Result("connect", "raise", "MailAuthError", "no_host_accepted",
           CandidateHosts(e), cause, <<>>)

\* One imaplib call as the log keeps it: the call, the host of the handle it
\* went to, the identifier fetched (for a search: how many identifiers the
\* server reported), the mode asked for, and the answer; for a fetch that
\* delivered a message, body tells which one.
Call(op, host, id, mode, res, shape) ==
    [op |-> op, host |-> host, id |-> id, mode |-> mode, res |-> res, shape |-> shape,
     body |-> NoBody]

\* ------------------------------------------------------------- _to_thread

\* The imaplib call a client is awaiting at each position of its code.
OpOf(p) ==
    CASE p = "c_open" -> "open"
      [] p = "c_login" -> "login"
      [] p \in {"c_logout", "d_logout"} -> "logout"
      [] p = "g_select" -> "select"
      [] p = "g_search" -> "search"
      [] OTHER -> "fetch"

ProtocolOps == {"open", "login", "select", "search", "fetch", "logout"}

\* A bug _to_thread could have: the call is handed to a thread and not
\* awaited, so the next one is dispatched while it still runs.
ToThread_NotAwaited(fl, p) ==
    IF p = "idle" THEN {c \in fl : c.client # 1}
    ELSE fl \cup {[client |-> 1, op |-> OpOf(p)]}

\* IMAPClient._to_thread, as the client's code uses it: the awaited call has
\* completed when the code goes on, and the code stops at the next call it
\* dispatches (p is the position reached; "idle": the API call is over).
ToThread(fl, p) ==
    LET rest == {c \in fl : c.client # 1}
    IN  IF p = "idle" THEN rest ELSE rest \cup {[client |-> 1, op |-> OpOf(p)]}

\* -------------------------------------------------------------- web layer

\* Who drives the client: a direct caller of the API ("caller": one client;
\* "pair": next to a second client), or the web application, which is
\* between requests ("none") or inside the login or the inbox handler.  The
\* stage of a handler is the last client call it started.
Web(handler, stage) == [handler |-> handler, stage |-> stage]

\* The empty e-mail: no client exists (the web application between two
\* requests), or the session stores no credentials (web.py, line 55 takes
\* an absent and an empty value alike).
NoEmail == <<>>

Direct == {"caller", "pair"}

Response(route, status, location, template) ==
    [route |-> route, status |-> status, location |-> location, template |-> template]

NoResponse == Response("none", 0, None, None)

\* A bug the login handler could have: disconnect() only on success.
ToDo_NoFinally(w, res) ==
    IF w.stage = "new" THEN "connect"
    ELSE IF w.stage = "connect"
    THEN IF res.kind = "raise" /\ w.handler = "login" THEN "respond"
         ELSE IF w.handler = "inbox" /\ res.kind = "return" THEN "get_messages"
         ELSE "disconnect"
    ELSE IF w.stage = "get_messages" THEN "disconnect"
    ELSE "respond"

\* web.py, login (lines 74-80) and _fetch_messages (lines 58-63): what the
\* handler does next, the client's last call having ended as res: connect()
\* first; get_messages() only in the inbox handler after a connect() that
\* returned; disconnect() in the finally block on every path; then the
\* response.
ToDo(w, res) ==
    IF w.stage = "new" THEN "connect"
    ELSE IF w.stage = "connect"
    THEN IF w.handler = "inbox" /\ res.kind = "return" THEN "get_messages"
         ELSE "disconnect"
    ELSE IF w.stage = "get_messages" THEN "disconnect"
    ELSE "respond"

\* web.py, login, lines 76-84: the exception of connect() becomes a 401 and
\* nothing is stored; otherwise the credentials are stored in the session.
LoginOutcome(pend, sess, em) ==
    IF pend.kind = "raise"
    THEN [session |-> sess, response |-> Response("login", 401, None, None)]
    ELSE [session |-> em, response |-> Response("login", 303, "/inbox", None)]

\* A bug the inbox handler could have: the session survives a failure.
InboxOutcome_KeepsSession(pend, sess) ==
    IF pend.kind = "raise"
    THEN [session |-> sess, response |-> Response("inbox", 303, "/", None)]
    ELSE [session |-> sess, response |-> Response("inbox", 200, None, "inbox.html")]

\* web.py, inbox, lines 96-107: any exception of _fetch_messages clears the
\* session and redirects to the login page; otherwise the inbox is rendered.
InboxOutcome(pend, sess) ==
    IF pend.kind = "raise"
    THEN [session |-> NoEmail, response |-> Response("inbox", 303, "/", None)]
    ELSE [session |-> sess, response |-> Response("inbox", 200, None, "inbox.html")]

\* ------------------------------------------------------------------ state

VARIABLES
    email,           \* self.email
    server,          \* self.server: a handle, or NoHandle
    connected_host,  \* self._connected_host
    live,            \* handles this client opened that are neither logged out nor closed
    opened,          \* opened[h]: the host handle h is connected to
    selected,        \* the mailbox state of the current handle: "none", "ro", "rw"
    seen,            \* identifiers whose \Seen flag is set on the server
    pc,              \* where the running call stands ("idle": none is running)
    hosts,           \* connect: the list the for loop iterates
    i,               \* connect: index of the candidate being tried
    last_error,      \* connect: last_error
    limit,           \* get_messages: limit
    mark_seen,       \* get_messages: mark_seen
    msg_ids,         \* get_messages: msg_ids after slicing
    k,               \* get_messages: index of the identifier being fetched
    messages,        \* get_messages: messages
    calls,           \* the imaplib calls of the running (or last) call, in order
    result,          \* how the last call ended
    inflight,        \* the imaplib calls running in worker threads: [client, op]
    web,             \* who drives the client, and the stage of the request handler
    session,         \* request.session: the e-mail stored with its password, or NoEmail
    pending,         \* how the try block of the handler ended (kept across finally)
    response         \* the last HTTP response

clientVars == <<email, server, connected_host>>
netVars == <<live, opened, selected, seen>>
connectVars == <<hosts, i, last_error>>
getVars == <<limit, mark_seen, msg_ids, k, messages>>
webVars == <<web, session, pending, response>>
vars == <<email, server, connected_host, live, opened, selected, seen, pc, hosts, i,
          last_error, limit, mark_seen, msg_ids, k, messages, calls, result, inflight,
          web, session, pending, response>>

Limits == MinLimit..MaxLimit

\* IMAPClient.__init__
Fresh(e) ==
    /\ email = e
    /\ server = NoHandle
    /\ connected_host = None
    /\ live = {}
    /\ opened = <<>>
    /\ selected = "none"
    /\ seen = {}
    /\ pc = "idle"
    /\ hosts = <<>>
    /\ i = 0
    /\ last_error = NoCause
    /\ limit = 0
    /\ mark_seen = FALSE
    /\ msg_ids = <<>>
    /\ k = 0
    /\ messages = <<>>
    /\ calls = <<>>
    /\ result = NoResult

\* Either a caller holds a client it has just constructed, or the web
\* application has started and has served no request yet.
Init ==
    /\ inflight = {}
    /\ session = NoEmail
    /\ pending = NoResult
    /\ response = NoResponse
    /\ \/ \E e \in Addresses, h \in Direct : Fresh(e) /\ web = Web(h, "none")
       \/ Fresh(NoEmail) /\ web = Web("none", "none")

\* IMAPClient.__init__ as a step: the variables of the client the model
\* follows describe a client just constructed for e.
Construct(e) ==
    /\ email' = e
    /\ server' = NoHandle
    /\ connected_host' = None
    /\ live' = {}
    /\ opened' = <<>>
    /\ selected' = "none"
    /\ seen' = {}
    /\ hosts' = <<>>
    /\ i' = 0
    /\ last_error' = NoCause
    /\ limit' = 0
    /\ mark_seen' = FALSE
    /\ msg_ids' = <<>>
    /\ k' = 0
    /\ messages' = <<>>
    /\ calls' = <<>>
    /\ result' = NoResult
    /\ pc' = "idle"

\* A caller constructs another client (IMAPClient.__init__ again).
NewClient ==
    /\ pc = "idle"
    /\ web.handler \in Direct
    /\ result.op # "none"
    /\ \E e \in Addresses : Construct(e)
    /\ UNCHANGED <<inflight, webVars>>

\* The caller of an API call of the client: a direct caller at any time
\* (get_messages() only where one client is followed alone), or a request
\* handler whose code has reached that call.  The handler keeps how its try
\* block ended when it enters the finally block.
StartedBy(op) ==
    /\ \/ web.handler = "caller"
       \/ web.handler = "pair" /\ op # "get_messages"
       \/ web.handler \in {"login", "inbox"} /\ ToDo(web, result) = op
    /\ web' = IF web.handler \in Direct THEN web ELSE Web(web.handler, op)
    /\ pending' = IF web.handler \notin Direct /\ op = "disconnect" THEN result ELSE pending
    /\ UNCHANGED <<session, response>>

ResetConnectLocals == hosts' = <<>> /\ i' = 0 /\ last_error' = NoCause
ResetGetLocals ==
    limit' = 0 /\ mark_seen' = FALSE /\ msg_ids' = <<>> /\ k' = 0 /\ messages' = <<>>

\* ---------------------------------------------------------------- connect

\* connect, lines 50-52: the call starts and the candidate list is computed.
ConnectCall ==
    /\ pc = "idle"
    /\ hosts' = CandidateHosts(email)
    /\ i' = 1
    /\ last_error' = NoCause
    /\ calls' = <<>>
    /\ result' = Running("connect")
    /\ pc' = "c_open"
    /\ ResetGetLocals
    /\ StartedBy("connect")
    /\ inflight' = ToThread(inflight, pc')
    /\ UNCHANGED <<clientVars, netVars>>

\* A bug the loop could have: it gives up after the first candidate.
Advance_StopsEarly(cause) ==
    /\ last_error' = cause
    /\ hosts' = hosts
    /\ i' = i /\ pc' = "idle" /\ result' = ConnectFailure(email, cause)

\* connect: the end of one loop iteration that did not return: the next
\* candidate, or the raise of lines 78-82.
Advance(cause) ==
    /\ last_error' = cause
    /\ hosts' = hosts
    /\ IF i < Len(hosts)
       THEN i' = i + 1 /\ pc' = "c_open" /\ result' = result
       ELSE i' = i /\ pc' = "idle" /\ result' = ConnectFailure(email, cause)

\* connect, lines 55-57 and 70-75: imaplib.IMAP4_SSL(host, ...).
COpen ==
    /\ pc = "c_open"
    /\ LET host == hosts[i] IN
       \/ /\ Len(opened) < MaxHandles
          /\ server' = Len(opened) + 1
          /\ opened' = Append(opened, host)
          /\ live' = live \cup {Len(opened) + 1}
          /\ selected' = "none"
          /\ calls' = Append(calls, Call("open", host, 0, "-", "ok", "-"))
          /\ pc' = "c_login"
          /\ UNCHANGED <<hosts, i, last_error, result>>
       \/ /\ server' = NoHandle
          /\ calls' = Append(calls, Call("open", host, 0, "-", "raise", "-"))
          /\ Advance([kind |-> "conn", host |-> host])
          /\ UNCHANGED <<opened, live, selected>>
    /\ inflight' = ToThread(inflight, pc')
    /\ UNCHANGED webVars
    /\ UNCHANGED <<email, connected_host, seen, getVars>>

\* connect, lines 58-62 and 70-75: self.server.login(email, password).
CLogin ==
    /\ pc = "c_login"
    /\ LET host == hosts[i] IN
       \/ /\ connected_host' = host
          /\ calls' = Append(calls, Call("login", host, 0, "-", "OK", "-"))
          /\ pc' = "idle"
          /\ result' = Return("connect", <<>>)
          /\ UNCHANGED <<server, hosts, i, last_error>>
       \/ /\ calls' = Append(calls, Call("login", host, 0, "-", "NO", "-"))
          /\ pc' = "c_logout"
          /\ UNCHANGED <<server, connected_host, hosts, i, last_error, result>>
       \/ /\ server' = NoHandle
          /\ calls' = Append(calls, Call("login", host, 0, "-", "raise", "-"))
          /\ Advance([kind |-> "login_error", host |-> host])
          /\ UNCHANGED connected_host
    /\ inflight' = ToThread(inflight, pc')
    /\ UNCHANGED webVars
    /\ UNCHANGED <<email, netVars, getVars>>

\* connect, lines 64-69: the logout after a login that was not OK.
CLogout ==
    /\ pc = "c_logout"
    /\ LET host == hosts[i] IN
       /\ \/ /\ live' = live \ {server}
             /\ calls' = Append(calls, Call("logout", host, 0, "-", "ok", "-"))
          \/ /\ live' = live
             /\ calls' = Append(calls, Call("logout", host, 0, "-", "raise", "-"))
       /\ server' = NoHandle
       /\ Advance([kind |-> "auth", host |-> host])
    /\ inflight' = ToThread(inflight, pc')
    /\ UNCHANGED webVars
    /\ UNCHANGED <<email, connected_host, opened, selected, seen, getVars>>

\* ------------------------------------------------------------- disconnect

\* disconnect, line 86: without a handle the call does nothing.
DisconnectCall ==
    /\ pc = "idle"
    /\ calls' = <<>>
    /\ IF server # NoHandle
       THEN pc' = "d_logout" /\ result' = Running("disconnect")
       ELSE pc' = "idle" /\ result' = Return("disconnect", <<>>)
    /\ ResetConnectLocals
    /\ ResetGetLocals
    /\ StartedBy("disconnect")
    /\ inflight' = ToThread(inflight, pc')
    /\ UNCHANGED <<clientVars, netVars>>

\* disconnect, lines 87-94: logout, whose failure is logged, then the clear.
DLogout ==
    /\ pc = "d_logout"
    /\ \/ /\ live' = live \ {server}
          /\ calls' = Append(calls, Call("logout", opened[server], 0, "-", "ok", "-"))
       \/ /\ live' = live
          /\ calls' = Append(calls, Call("logout", opened[server], 0, "-", "raise", "-"))
    /\ server' = NoHandle
    /\ connected_host' = None
    /\ pc' = "idle"
    /\ result' = Return("disconnect", <<>>)
    /\ inflight' = ToThread(inflight, pc')
    /\ UNCHANGED webVars
    /\ UNCHANGED <<email, opened, selected, seen, connectVars, getVars>>

\* ----------------------------------------------------------- get_messages

\* A bug get_messages could have: a failure drops the session.
GetFrame_DropsOnError ==
    /\ email' = email
    /\ IF result'.kind = "raise"
       THEN server' = NoHandle /\ connected_host' = None
       ELSE server' = server /\ connected_host' = connected_host

\* get_messages, lines 98-159: no statement assigns self.server,
\* self._connected_host or self.email.
GetFrame == UNCHANGED <<email, server, connected_host>>

\* get_messages, lines 107-108: the call starts; without a handle it raises
\* before any imaplib call.
GetCall ==
    /\ pc = "idle"
    /\ \E lim \in Limits, ms \in BOOLEAN :
        /\ web.handler = "inbox" => ms = FALSE
        /\ limit' = lim
        /\ mark_seen' = ms
    /\ msg_ids' = <<>>
    /\ k' = 0
    /\ messages' = <<>>
    /\ calls' = <<>>
    /\ IF server = NoHandle
       THEN pc' = "idle" /\ result' = Raise("get_messages", "MailAuthError", "no_connection")
       ELSE pc' = "g_select" /\ result' = Running("get_messages")
    /\ ResetConnectLocals
    /\ GetFrame
    /\ StartedBy("get_messages")
    /\ inflight' = ToThread(inflight, pc')
    /\ UNCHANGED netVars

\* get_messages, lines 110-112: self.server.select(mailbox, readonly=True).
\* The server opens the mailbox read-only or read-write as asked.
GSelect ==
    /\ pc = "g_select"
    /\ LET ro == SelectReadonly(mark_seen)
           mode == IF ro THEN "readonly" ELSE "readwrite"
       IN  \/ /\ calls' = Append(calls, Call("select", opened[server], 0, mode, "OK", "-"))
              /\ selected' = IF ro THEN "ro" ELSE "rw"
              /\ pc' = "g_search"
              /\ result' = result
           \/ /\ calls' = Append(calls, Call("select", opened[server], 0, mode, "NO", "-"))
              /\ selected' = selected
              /\ pc' = "idle"
              /\ result' = Raise("get_messages", "MailAuthError", "select_rejected")
           \/ /\ calls' = Append(calls, Call("select", opened[server], 0, mode, "raise", "-"))
              /\ selected' = selected
              /\ pc' = "idle"
              /\ result' = Raise("get_messages", "IMAP4.error", "select")
    /\ inflight' = ToThread(inflight, pc')
    /\ UNCHANGED webVars
    /\ GetFrame
    /\ UNCHANGED <<live, opened, seen, connectVars, getVars>>

\* get_messages, lines 114-122: self.server.search(None, criteria), the
\* parse of its answer, the early return and the slice.
GSearch ==
    /\ pc = "g_search"
    /\ \/ \E d \in SearchData :
            LET ids == ParseIds(d)
                sel == LastN(ids, limit)
            IN  /\ calls' = Append(calls,
                        Call("search", opened[server], d.n, "-", "OK", "-"))
                /\ IF ids = <<>>
                   THEN /\ msg_ids' = <<>> /\ k' = 0 /\ pc' = "idle"
                        /\ result' = Return("get_messages", <<>>)
                   ELSE IF sel = <<>>
                   THEN /\ msg_ids' = sel /\ k' = 0 /\ pc' = "idle"
                        /\ result' = Return("get_messages", Reverse(messages))
                   ELSE /\ msg_ids' = sel /\ k' = 1 /\ pc' = "g_fetch"
                        /\ result' = result
       \/ /\ calls' = Append(calls, Call("search", opened[server], 0, "-", "NO", "-"))
          /\ pc' = "idle"
          /\ result' = Raise("get_messages", "MailAuthError", "search_rejected")
          /\ UNCHANGED <<msg_ids, k>>
       \/ /\ calls' = Append(calls, Call("search", opened[server], 0, "-", "raise", "-"))
          /\ pc' = "idle"
          /\ result' = Raise("get_messages", "IMAP4.error", "search")
          /\ UNCHANGED <<msg_ids, k>>
    /\ inflight' = ToThread(inflight, pc')
    /\ UNCHANGED webVars
    /\ GetFrame
    /\ UNCHANGED <<netVars, connectVars, limit, mark_seen, messages>>

\* What a fetch does to the \Seen flag on the server: a body fetch that is
\* not a peek sets it, unless the mailbox was opened read-only.
SeenAfterFetch(id, mode, r) ==
    IF r.typ = "OK" /\ r.shape = "tuple" /\ mode = "(RFC822)" /\ selected = "rw"
    THEN seen \cup {id} ELSE seen

\* get_messages, lines 127-159: one iteration of the fetch loop: the fetch,
\* the skip or the record; after the last one, the reverse and the return.
GFetch ==
    /\ pc = "g_fetch"
    /\ LET id == msg_ids[k]
           mode == FetchItems(mark_seen)
       IN  \/ \E r \in FetchResponses :
                LET b == BuildRecord(id, r)
                    now == IF Skipped(r) THEN messages ELSE messages \o b.rec
                IN  /\ calls' = Append(calls,
                            [Call("fetch", opened[server], id, mode, r.typ, r.shape)
                                EXCEPT !.body = r.body])
                    /\ seen' = SeenAfterFetch(id, mode, r)
                    /\ IF ~Skipped(r) /\ b.exc # None
                       THEN /\ messages' = messages /\ k' = k /\ pc' = "idle"
                            /\ result' = Raise("get_messages", b.exc, "parse")
                       ELSE /\ messages' = now
                            /\ IF k < Len(msg_ids)
                               THEN k' = k + 1 /\ pc' = "g_fetch" /\ result' = result
                               ELSE k' = k /\ pc' = "idle"
                                    /\ result' = Return("get_messages", Reverse(now))
           \/ /\ calls' = Append(calls,
                      Call("fetch", opened[server], id, mode, "raise", "-"))
              /\ seen' = seen
              /\ pc' = "idle"
              /\ result' = Raise("get_messages", "IMAP4.error", "fetch")
              /\ UNCHANGED <<messages, k>>
    /\ inflight' = ToThread(inflight, pc')
    /\ UNCHANGED webVars
    /\ GetFrame
    /\ UNCHANGED <<live, opened, selected, connectVars, limit, mark_seen, msg_ids>>

\* ----------------------------------------------------------- second client

\* Another IMAPClient instance, followed only through the imaplib call it
\* has in flight: its _to_thread dispatches one ...
OtherDispatch ==
    /\ web.handler = "pair"
    /\ \A c \in inflight : c.client # 2
    /\ \E op \in ProtocolOps : inflight' = inflight \cup {[client |-> 2, op |-> op]}
    /\ UNCHANGED <<clientVars, netVars, pc, connectVars, getVars, calls, result, webVars>>

\* ... and its await returns.
OtherComplete ==
    /\ web.handler = "pair"
    /\ \E c \in inflight : c.client = 2
    /\ inflight' = {c \in inflight : c.client # 2}
    /\ UNCHANGED <<clientVars, netVars, pc, connectVars, getVars, calls, result, webVars>>

\* ------------------------------------------------------- request handlers

\* web.py, index, lines 66-70.
WebIndex ==
    /\ web.handler = "none"
    /\ response' = IF session # NoEmail THEN Response("index", 303, "/inbox", None)
                   ELSE Response("index", 200, None, "login.html")
    /\ UNCHANGED <<clientVars, netVars, pc, connectVars, getVars, calls, result, inflight,
                   web, session, pending>>

\* web.py, login, lines 73-74: the handler constructs its client.
WebLogin ==
    /\ web.handler = "none"
    /\ \E e \in Addresses : Construct(e)
    /\ web' = Web("login", "new")
    /\ pending' = NoResult
    /\ UNCHANGED <<inflight, session, response>>

\* web.py, inbox, lines 94-98 and _fetch_messages, line 58: without stored
\* credentials the handler redirects to the login page; with them it
\* constructs its client.
WebInbox ==
    /\ web.handler = "none"
    /\ IF session = NoEmail
       THEN /\ response' = Response("inbox", 303, "/", None)
            /\ UNCHANGED <<clientVars, netVars, pc, connectVars, getVars, calls, result,
                           web, pending>>
       ELSE /\ Construct(session)
            /\ web' = Web("inbox", "new")
            /\ pending' = NoResult
            /\ response' = response
    /\ UNCHANGED <<inflight, session>>

\* web.py, login, lines 76-84, and inbox, lines 99-107: disconnect() has
\* returned and the handler answers; its client goes out of scope.
WebRespond ==
    /\ web.handler \in {"login", "inbox"}
    /\ pc = "idle"
    /\ ToDo(web, result) = "respond"
    /\ LET out == IF web.handler = "login" THEN LoginOutcome(pending, session, email)
                  ELSE InboxOutcome(pending, session)
       IN  /\ session' = out.session
           /\ response' = out.response
    /\ Construct(NoEmail)
    /\ web' = Web("none", "none")
    /\ pending' = NoResult
    /\ UNCHANGED inflight

\* web.py, logout, lines 86-90.
WebLogout ==
    /\ web.handler = "none"
    /\ session' = NoEmail
    /\ response' = Response("logout", 303, "/", None)
    /\ UNCHANGED <<clientVars, netVars, pc, connectVars, getVars, calls, result, inflight,
                   web, pending>>

\* ---------------------------------------------------------- specification

Next ==
    \/ NewClient
    \/ ConnectCall
    \/ COpen
    \/ CLogin
    \/ CLogout
    \/ DisconnectCall
    \/ DLogout
    \/ GetCall
    \/ GSelect
    \/ GSearch
    \/ GFetch
    \/ OtherDispatch
    \/ OtherComplete
    \/ WebIndex
    \/ WebLogin
    \/ WebInbox
    \/ WebRespond
    \/ WebLogout

Spec == Init /\ [][Next]_vars

TypeOK ==
    /\ email \in Addresses \cup {NoEmail}
    /\ web.handler \in Direct \cup {"none", "login", "inbox"}
    /\ session \in Addresses \cup {NoEmail}
    /\ \A c \in inflight : c.client \in {1, 2} /\ c.op \in ProtocolOps
    /\ server \in 0..MaxHandles
    /\ live \subseteq 1..Len(opened)
    /\ pc \in {"idle", "c_open", "c_login", "c_logout", "d_logout", "g_select",
               "g_search", "g_fetch"}

\* ----------------------------------------------------------------- claims

Finished(op) == pc = "idle" /\ result.op = op

CallsOf(op) == SelectSeq(calls, LAMBDA c : c.op = op)

\* The identifiers the server reported to the search of this call.
Reported == CallsOf("search")[1].id

SearchAnswered == \E j \in 1..Len(calls) : calls[j].op = "search" /\ calls[j].res = "OK"

NoCallRaised == \A j \in 1..Len(calls) : calls[j].res # "raise"

FetchedIds == [j \in 1..Len(CallsOf("fetch")) |-> CallsOf("fetch")[j].id]

\* The fetches that delivered a message (typ OK, a literal in data[0]).
Delivered == SelectSeq(CallsOf("fetch"), LAMBDA c : c.res = "OK" /\ c.shape = "tuple")

ReturnedIds == [j \in 1..Len(result.value) |-> result.value[j].message_id]

\* C1: at every moment during and after connect(), the client has at most
\* one live transport handle (opened and neither logged out nor closed).
\* Stated as the claim; the code violates it: a login that raises drops the
\* handle without closing it and the next candidate opens another one.
C1_AtMostOneLiveHandle == Cardinality(live) <= 1

\* The cause connect() should report: that of the last call that failed.
ExpectedCause ==
    LET c == calls[Len(calls)]
    IN  IF c.op = "open" THEN [kind |-> "conn", host |-> c.host]
        ELSE IF c.op = "login" THEN [kind |-> "login_error", host |-> c.host]
        ELSE [kind |-> "auth", host |-> c.host]

\* C2: when no candidate was both connected and logged in, connect() fails
\* with MailAuthError naming every candidate tried, in order, and the most
\* recent cause; nothing else is ever raised by connect(), and after the
\* failure the client holds no handle.
C2_ExhaustedRaisesAuthError ==
    Finished("connect") =>
        /\ result.kind = "raise" => result.exc = "MailAuthError"
        /\ (\A j \in 1..Len(calls) : ~(calls[j].op = "login" /\ calls[j].res = "OK")) =>
              /\ result.kind = "raise"
              /\ result.exc = "MailAuthError"
              /\ result.tried = [j \in 1..Len(CallsOf("open")) |-> CallsOf("open")[j].host]
              /\ result.tried = hosts
              /\ result.cause = ExpectedCause
              /\ server = NoHandle

C2_Witness ==
    /\ Finished("connect")
    /\ result.kind = "raise"
    /\ Len(result.tried) = 2
    /\ result.cause.kind = "conn"
    /\ \E j \in 1..Len(calls) : calls[j].op = "login" /\ calls[j].res = "NO"

\* C3: get_messages() without an established session fails with
\* ProtocolStateError and issues no select, search or fetch.  Stated as the
\* claim; the code raises MailAuthError, the authentication error.
C3_NoSessionRaisesProtocolStateError ==
    (Finished("get_messages") /\ server = NoHandle) =>
        /\ result.kind = "raise"
        /\ result.exc = "ProtocolStateError"
        /\ calls = <<>>

\* C4: for every limit (0 and negative ones included) the number of records
\* get_messages() returns is between 0 and limit; below a limit of 0 the
\* only count in that range is none at all.  Stated as the claim; the code
\* returns every message for limit 0 and all but the first -limit messages
\* for a negative limit.
C4_LengthWithinLimit ==
    (Finished("get_messages") /\ result.kind = "return") =>
        (0 <= Len(result.value) /\ Len(result.value) <= Max({limit, 0}))

\* C5: with N identifiers reported and a limit L <= N (a count, so 0 <= L),
\* get_messages() fetches exactly the last L identifiers, and when all of
\* them deliver a message returns their records newest first.  Stated as the
\* claim; the code fetches all N for L = 0.
C5_FetchesLastL ==
    (/\ Finished("get_messages")
     /\ result.kind = "return"
     /\ SearchAnswered
     /\ 0 <= limit
     /\ limit <= Reported) =>
        /\ FetchedIds = [j \in 1..limit |-> Reported - limit + j]
        /\ Len(Delivered) = Len(FetchedIds) => ReturnedIds = Reverse(FetchedIds)

\* C6: a malformed message never aborts the batch: whatever the fetches
\* deliver, get_messages() returns the records of the messages that were
\* delivered, newest first.  Stated as the claim; the code lets the
\* LookupError of an unknown charset in a single-part message, and the error
\* of a data item of unexpected shape, end the call.
C6_MalformedNeverAborts ==
    (/\ Finished("get_messages")
     /\ SearchAnswered
     /\ NoCallRaised) =>
        /\ result.kind = "return"
        /\ ReturnedIds = Reverse([j \in 1..Len(Delivered) |-> Delivered[j].id])

\* C7: disconnect() never raises and after it returns the handle and the
\* host binding are both cleared (the state of a fresh client).  Stated as
\* the claim; the code keeps a stale host binding when no handle is held.
C7_DisconnectClears ==
    Finished("disconnect") =>
        /\ result.kind = "return"
        /\ server = NoHandle
        /\ connected_host = None

GetPcs == {"g_select", "g_search", "g_fetch"}

NewCalls == {j \in 1..Len(calls') : j > Len(calls)}

\* C8: with mark_seen false, every step of get_messages() selects read-only,
\* fetches in peek mode, and leaves every \Seen flag on the server as it was.
C8_PeekLeavesSeenUnchanged ==
    [][(pc \in GetPcs /\ ~mark_seen) =>
          /\ seen' = seen
          /\ \A j \in NewCalls :
                /\ calls'[j].op = "select" => calls'[j].mode = "readonly"
                /\ calls'[j].op = "fetch" => calls'[j].mode = "(BODY.PEEK[])"]_vars

C8_Witness ==
    /\ Finished("get_messages")
    /\ ~mark_seen
    /\ result.kind = "return"
    /\ Len(result.value) = 2
    /\ selected = "ro"

\* C9: when the search reports zero identifiers, get_messages() returns an
\* empty list, issues no fetch and does not raise.
C9_EmptySearchReturnsEmpty ==
    (Finished("get_messages") /\ SearchAnswered /\ Reported = 0) =>
        /\ result.kind = "return"
        /\ result.value = <<>>
        /\ CallsOf("fetch") = <<>>

C9_Witness ==
    /\ Finished("get_messages")
    /\ SearchAnswered
    /\ Reported = 0
    /\ limit > 0
    /\ result.kind = "return"

RECURSIVE TrimLeft(_)
TrimLeft(t) == IF t # <<>> /\ IsSpace(Head(t)) THEN TrimLeft(Tail(t)) ELSE t

\* The domain of an address: the text after the "@", surrounding whitespace
\* removed, lower-cased.
DomainOf(e) ==
    LET at == CHOOSE j \in 1..Len(e) : e[j] = "@" /\ \A m \in (j + 1)..Len(e) : e[m] # "@"
        raw == [j \in 1..(Len(e) - at) |-> e[at + j]]
        body == Reverse(TrimLeft(Reverse(TrimLeft(raw))))
    IN  [j \in 1..Len(body) |-> LowerChar(body[j])]

\* C10: the candidate list of connect() is exactly <<mapped host>> when the
\* address's lower-cased domain is in the domain-to-host table, and exactly
\* <<imap.firstmail.ltd, imap.notletters.com>> when it is not; the error
\* message of a failed connect() lists the same hosts.
C10_CandidateList ==
    result.op = "connect" =>
        LET expected == IF \E d \in DOMAIN IMAP_SERVERS : d = DomainOf(email)
                        THEN <<IMAP_SERVERS[DomainOf(email)]>>
                        ELSE <<"imap.firstmail.ltd", "imap.notletters.com">>
        IN  /\ hosts = expected
            /\ result.kind = "raise" => result.tried = expected

C10_Witness ==
    /\ Finished("connect")
    /\ result.kind = "raise"
    /\ email = <<"U", "@", "B", ".", "A", " ">>
    /\ hosts = <<"imap.b.a">>

\* The parts of a message that carry HTML with something in it: a
\* single-part text/html message, or a multipart's text/html leaves that are
\* not attachments.
HtmlParts(msg) ==
    IF msg.multipart
    THEN {j \in 1..Len(msg.parts) :
            /\ msg.parts[j].ctype = "text/html"
            /\ msg.parts[j].disp \notin {"attachment; filename=f", "ATTACHMENT"}
            /\ \E m \in 1..Len(msg.parts[j].payload) : ~IsSpace(msg.parts[j].payload[m])}
    ELSE IF msg.ctype = "text/html" /\ \E m \in 1..Len(msg.payload) : ~IsSpace(msg.payload[m])
         THEN {0} ELSE {}

\* html.unescape for one token.
UnescapeToken(t) ==
    CASE t = "&amp;" -> "&"
      [] t = "&lt;" -> "<"
      [] t = "&gt;" -> ">"
      [] t = "&quot;" -> "\""
      [] t = "&#x27;" -> "'"
      [] OTHER -> t

MarkupChars == {"&", "<", ">", "\"", "'"}

\* html is text, escaped, inside the <pre> container.
IsFallbackOf(html, text) ==
    /\ Len(html) = Len(text) + 2
    /\ html[1] = PreOpen
    /\ html[Len(html)] = PreClose
    /\ \A j \in 1..Len(text) :
          /\ html[j + 1] \notin MarkupChars
          /\ UnescapeToken(html[j + 1]) = text[j]

\* The message each returned record was built from.
SourceOf(j) == Bodies[Reverse(Delivered)[j].body]

\* C11: in every batch get_messages() returns, a record with a non-empty
\* body_text has a non-empty body_html; when the message has no HTML part
\* the body_html is the escaped body_text inside the <pre> container; when
\* it has one, body_html is never the synthesized fallback.
C11_HtmlBodyWheneverText ==
    (Finished("get_messages") /\ result.kind = "return") =>
        /\ Len(result.value) = Len(Delivered)
        /\ \A j \in 1..Len(result.value) :
              LET rec == result.value[j] IN
              /\ rec.body_text # <<>> => rec.body_html # <<>>
              /\ (HtmlParts(SourceOf(j)) = {} /\ rec.body_text # <<>>) =>
                    IsFallbackOf(rec.body_html, rec.body_text)
              /\ HtmlParts(SourceOf(j)) # {} =>
                    /\ rec.body_html # <<>>
                    /\ \A m \in 1..Len(rec.body_html) :
                          rec.body_html[m] \notin {PreOpen, PreClose}

C11_Witness ==
    /\ Finished("get_messages")
    /\ result.kind = "return"
    /\ Len(result.value) = 2
    /\ HtmlParts(SourceOf(1)) = {}
    /\ IsFallbackOf(result.value[1].body_html, result.value[1].body_text)
    /\ "&lt;" \in {result.value[1].body_html[m] : m \in 1..Len(result.value[1].body_html)}
    /\ HtmlParts(SourceOf(2)) # {}
    /\ result.value[2].body_text # <<>>

\* C13: connect() tries the candidates in list order, each at most once,
\* opening a connection before logging in on it; the first login that
\* succeeds binds that candidate's handle and host and ends the call, and a
\* connect() that fails has tried every candidate exactly once.
C13_CandidatesInOrder ==
    result.op = "connect" =>
        LET opens == CallsOf("open") IN
        /\ Len(opens) <= Len(hosts)
        /\ \A j \in 1..Len(opens) : opens[j].host = hosts[j]
        /\ pc = "c_open" => i = Len(opens) + 1
        /\ \A j \in 1..Len(calls) :
              /\ calls[j].op = "login" =>
                    /\ j > 1
                    /\ calls[j - 1].op = "open"
                    /\ calls[j - 1].res = "ok"
                    /\ calls[j - 1].host = calls[j].host
              /\ (calls[j].op = "login" /\ calls[j].res = "OK") =>
                    /\ j = Len(calls)
                    /\ pc = "idle"
                    /\ result.kind = "return"
                    /\ connected_host = calls[j].host
                    /\ server # NoHandle
                    /\ opened[server] = calls[j].host
        /\ (pc = "idle" /\ result.kind = "raise") => Len(opens) = Len(hosts)

C13_Witness ==
    /\ Finished("connect")
    /\ result.kind = "return"
    /\ Len(CallsOf("open")) = 2
    /\ connected_host = hosts[2]
    /\ calls[1].res = "raise"

\* C14: whenever a candidate's connection opened and its login was rejected
\* (a non-OK result, or an IMAP error raised), connect() logs that
\* connection out before it moves on or fails.  Stated as the claim; the
\* code does so only for the non-OK result: a login that raises goes to the
\* except branch, which has no logout.
C14_RejectedLoginIsClosed ==
    result.op = "connect" =>
        \A j \in 1..Len(calls) :
            (/\ calls[j].op = "login"
             /\ calls[j].res \in {"NO", "raise"}
             /\ (j < Len(calls) \/ pc = "idle")) =>
                (j < Len(calls) /\ calls[j + 1].op = "logout")

\* C15: with mark_seen true every message is fetched in the mode that marks
\* it seen, so every message delivered has its \Seen flag set after the
\* call.  Stated as the claim; the code asks for (RFC822) but has selected
\* the mailbox read-only, so the server sets no flag.
C15_MarkSeenSetsFlag ==
    (Finished("get_messages") /\ mark_seen /\ result.kind = "return") =>
        /\ \A j \in 1..Len(CallsOf("fetch")) : CallsOf("fetch")[j].mode = "(RFC822)"
        /\ \A j \in 1..Len(Delivered) : Delivered[j].id \in seen

\* C16: get_messages() calls select, then search, then the fetches in
\* ascending identifier order; a rejected select ends the call with an error
\* before any search or fetch, a rejected search before any fetch.
C16_SelectSearchFetchOrder ==
    result.op = "get_messages" =>
        /\ Len(calls) >= 1 => calls[1].op = "select"
        /\ Len(calls) >= 2 => (calls[1].res = "OK" /\ calls[2].op = "search")
        /\ \A j \in 3..Len(calls) :
              /\ calls[2].res = "OK"
              /\ calls[j].op = "fetch"
              /\ j > 3 => calls[j - 1].id < calls[j].id
        /\ \A j \in 1..Len(calls) :
              (calls[j].op \in {"select", "search"} /\ calls[j].res = "NO") =>
                  /\ j = Len(calls)
                  /\ pc = "idle"
                  /\ result.kind = "raise"

C16_Witness ==
    /\ Finished("get_messages")
    /\ result.kind = "return"
    /\ Len(calls) = 4
    /\ calls[3].id = 1
    /\ calls[4].id = 2

\* C18: in every reachable state the host binding is set only while a
\* handle is held, and then names the host that handle is connected to.
\* Stated as the claim; a connect() that fails on a client that was
\* connected clears the handle and keeps the old host binding.
C18_HostBindingOnlyWithHandle ==
    connected_host # None => (server # NoHandle /\ opened[server] = connected_host)

\* C20: no step of get_messages(), however it ends, changes the handle or
\* the host binding of the client.
C20_GetMessagesKeepsSession ==
    [][(pc \in GetPcs \/ (pc = "idle" /\ result'.op = "get_messages")) =>
          (server' = server /\ connected_host' = connected_host)]_vars

C20_Witness ==
    /\ Finished("get_messages")
    /\ result.kind = "raise"
    /\ result.msg = "search_rejected"
    /\ server # NoHandle
    /\ connected_host = opened[server]

\* C12: a login request whose connect() failed answers 401 and leaves the
\* session as it was, and only one whose connect() returned stores the
\* credentials; an inbox request whose connect() or get_messages() failed
\* clears the session and redirects to the login page, and only one whose
\* get_messages() returned renders the inbox; without stored credentials no
\* inbox request constructs a client.
C12_WebFailureHandling ==
    [][/\ (web.handler = "login" /\ web'.handler = "none") =>
             /\ pending.op = "connect"
             /\ IF pending.kind = "raise"
                THEN /\ response'.status = 401
                     /\ session' = session
                ELSE /\ pending.kind = "return"
                     /\ session' = email
                     /\ response'.status = 303
                     /\ response'.location = "/inbox"
       /\ (web.handler = "inbox" /\ web'.handler = "none") =>
             IF pending.kind = "raise"
             THEN /\ pending.op \in {"connect", "get_messages"}
                  /\ session' = NoEmail
                  /\ response'.status = 303
                  /\ response'.location = "/"
             ELSE /\ pending.op = "get_messages"
                  /\ pending.kind = "return"
                  /\ session' = session
                  /\ response'.template = "inbox.html"
       /\ (web.handler = "none" /\ session = NoEmail) => web'.handler # "inbox"
      ]_vars

C12_Witness ==
    /\ web.handler = "none"
    /\ response.route = "login"
    /\ response.status = 401
    /\ session # NoEmail

\* C17: every client has at most one imaplib call in flight: the followed
\* client exactly the one its code is awaiting, and none between its API
\* calls; a call of the second client may be in flight at the same time.
C17_OneCallInFlightPerClient ==
    /\ \A cl \in {1, 2} : Cardinality({c \in inflight : c.client = cl}) <= 1
    /\ pc = "idle" => \A c \in inflight : c.client # 1
    /\ pc # "idle" => [client |-> 1, op |-> OpOf(pc)] \in inflight

C17_Witness ==
    /\ [client |-> 1, op |-> "login"] \in inflight
    /\ [client |-> 2, op |-> "fetch"] \in inflight
    /\ Len(calls) = 1

\* C19: a request handler answers only after disconnect() has returned on
\* the client it constructed, which then holds no handle and no host
\* binding, whatever connect() and get_messages() did; every handler that
\* uses a client starts with one freshly constructed, and a client is used
\* by no other request than the one that constructed it.
C19_HandlerDisconnectsItsClient ==
    [][/\ (web.handler \in {"login", "inbox"} /\ web'.handler = "none") =>
             /\ Finished("disconnect")
             /\ result.kind = "return"
             /\ server = NoHandle
             /\ connected_host = None
             /\ \A c \in inflight : c.client # 1
       /\ (web.handler = "none" /\ web'.handler # "none") =>
             /\ web'.handler \in {"login", "inbox"}
             /\ server' = NoHandle
             /\ connected_host' = None
             /\ calls' = <<>>
             /\ result' = NoResult
       /\ web.handler \in {"login", "inbox"} => web'.handler \in {web.handler, "none"}
      ]_vars

C19_Witness ==
    /\ web = Web("inbox", "disconnect")
    /\ Finished("disconnect")
    /\ pending.op = "get_messages"
    /\ pending.kind = "raise"
    /\ Len(calls) = 1
    /\ calls[1].op = "logout"
    /\ server = NoHandle

====
